---- MODULE Spec2Model ----
(***************************************************************************)
(* A model of catminer (src/catminer/catminer.py): the batch crawl that    *)
(* mirrors an input tree into an output tree, stages archives in the       *)
(* workspace ".catminer", opens / resolves / exports / closes every .CAT*  *)
(* document through the automation host, and cleans up in _finish().       *)
(*                                                                         *)
(* File names are sequences of dot-separated segments (<<"A","CATPart">>   *)
(* is "A.CATPart", <<"","catminer">> is ".catminer"); paths are sequences  *)
(* of names.  Every file name of the model contains a dot and no name      *)
(* contains a path separator, as on a real file system.                    *)
(***************************************************************************)
EXTENDS Integers, Sequences, FiniteSets, TLC

\* ------------------------------------------------------------------ bounds
MaxItems    == 1   \* top-level entries of an input tree
MaxRuns     == 2   \* consecutive calls of begin() on the same directories
MaxAttempts == 3   \* resolution attempts the host can refuse in a row, plus one
MaxFaults   == 1   \* exceptions raised over all the runs

\* ---------------------------------------------------------- module constants
XML  == 0
JSON == 1

\* text of the segment after the dot that type_re accepts -> the captured kind
CatKind ==
  [CATPart |-> "Part", CATProduct |-> "Product", CATDrawing |-> "Drawing",
   CATProcess |-> "Process", CATShape |-> "Shape", CATpart |-> "part"]

\* str.lower() on the kinds and blacklist entries of the model
Lower ==
  [Part |-> "part", Product |-> "product", Drawing |-> "drawing",
   Process |-> "process", Shape |-> "shape", part |-> "part"]

\* '.CAT' + file_type, the inverse of the capture
CatSeg ==
  [Part |-> "CATPart", Product |-> "CATProduct", Drawing |-> "CATDrawing",
   Process |-> "CATProcess", Shape |-> "CATShape", part |-> "CATpart"]

\* ------------------------------------------------------------------- paths
Last(s)      == s[Len(s)]
Front(s)     == SubSeq(s, 1, Len(s) - 1)
Join(d, n)   == Append(d, n)
IsPrefix(a, b) == Len(a) <= Len(b) /\ SubSeq(b, 1, Len(a)) = a

in_dir_  == << <<"in">> >>
out_dir_ == << <<"out">> >>
tmp_dir_ == Join(out_dir_, <<"", "catminer">>)
log_path == Join(out_dir_, <<"logs">>)
log_file == Join(log_path, <<"catminer-log">>)

\* ----------------------------------------------------- regular expressions
\* a name holds a dot preceded by at least one character
HasStem(n) == Len(n) >= 2 /\ ~(Len(n) = 2 /\ n[1] = "")

\* file_re.findall(path): the greedy match inside each name that has one
file_re_findall(path) ==
  LET idx == {i \in 1..Len(path) : HasStem(path[i])}
      RECURSIVE Collect(_)
      Collect(i) == IF i > Len(path) THEN <<>>
                    ELSE IF i \in idx THEN <<Front(path[i])>> \o Collect(i + 1)
                    ELSE Collect(i + 1)
  IN  Collect(1)

\* index of the name that holds the last dot of the path, 0 if there is none
LastDotted(path) ==
  LET idx == {i \in 1..Len(path) : Len(path[i]) >= 2}
  IN  IF idx = {} THEN 0 ELSE CHOOSE i \in idx : \A j \in idx : j <= i

\* type_re.search(path): the text after the last dot starts with "CAT"
type_re_search(path) ==
  LET i == LastDotted(path)
  IN  i > 0 /\ Last(path[i]) \in DOMAIN CatKind

\* type_re.findall(path)[0]: the kind, and the names the match runs over
type_re_find(path) ==
  LET i == LastDotted(path)
  IN  [kind |-> CatKind[Last(path[i])], tail |-> SubSeq(path, i + 1, Len(path))]

\* ".CATProcess" in path
HasProcessMarker(path) ==
  \E i \in 1..Len(path) : \E j \in 2..Len(path[i]) : path[i][j] = "CATProcess"

\* ------------------------------------------------------------ input trees
\* a node of a tree: a directory, a plain file, or a file with a zip
\* signature (zip = TRUE) whose content c is again a set of nodes; bad marks
\* an archive member whose data cannot be read
Doc(n)    == [n |-> n, t |-> "file", zip |-> FALSE, bad |-> FALSE, c |-> {}]
Bad(n)    == [n |-> n, t |-> "file", zip |-> FALSE, bad |-> TRUE,  c |-> {}]
Dir(n, c) == [n |-> n, t |-> "dir",  zip |-> FALSE, bad |-> FALSE, c |-> c]
Zip(n, c) == [n |-> n, t |-> "file", zip |-> TRUE,  bad |-> FALSE, c |-> c]

nA == <<"A", "CATDrawing">>
nC == <<"C", "CATProduct">>
nD == <<"D", "CATPart">>
nL == <<"L", "CATpart">>
nW == <<"W", "CATProcess">>

\* the entries an input directory is assembled from
Items ==
  { Doc(nA),
    Zip(nW, {}),
    Zip(<<"X", "CATProcess", "zip">>, {Doc(<<"readme", "txt">>)}),
    Dir(<<"a">>, {Dir(<<"b">>, {Doc(<<"readme", "txt">>)})}),
    Dir(<<"d", "x">>, {Doc(nL)}),
    Dir(<<"B">>, {Doc(nC)}),
    Zip(<<"B", "zip">>, {Doc(nC)}),
    Dir(<<"m">>, {Dir(<<"B">>, {Doc(nC)}), Zip(<<"B", "zip">>, {Doc(nC)})}),
    Zip(<<"K", "zip">>, {Bad(nA)}),
    Zip(<<"Z", "zip">>, {Zip(<<"B", "zip">>, {Doc(nC)}), Dir(<<"B">>, {Doc(nD)})}) }

Trees == {t \in SUBSET Items : Cardinality(t) <= MaxItems}

\* the file-system entries of a set of nodes placed in directory base
RECURSIVE Flatten(_, _)
Flatten(nodes, base) ==
  UNION { {[p |-> Join(base, x.n), t |-> x.t, zip |-> x.zip, bad |-> x.bad,
            c |-> IF x.t = "dir" THEN {} ELSE x.c]}
          \cup (IF x.t = "dir" THEN Flatten(x.c, Join(base, x.n)) ELSE {})
        : x \in nodes }

DirEntry(p)  == [p |-> p, t |-> "dir",  zip |-> FALSE, bad |-> FALSE, c |-> {}]
FileEntry(p) == [p |-> p, t |-> "file", zip |-> FALSE, bad |-> FALSE, c |-> {}]

\* --------------------------------------------------------- os / os.path
exists(f, p)  == \E e \in f : e.p = p
isdir(f, p)   == \E e \in f : e.p = p /\ e.t = "dir"
isfile(f, p)  == \E e \in f : e.p = p /\ e.t = "file"
is_zipfile(f, p) == \E e \in f : e.p = p /\ e.t = "file" /\ e.zip
entry(f, p)   == CHOOSE e \in f : e.p = p
listdir(f, d) == {Last(e.p) : e \in {x \in f : Len(x.p) = Len(d) + 1 /\ Front(x.p) = d}}
mkdir(f, p)   == f \cup {DirEntry(p)}
\* os.makedirs(p, exist_ok=True): p and every missing ancestor
makedirs(f, p) ==
  f \cup {DirEntry(SubSeq(p, 1, k)) : k \in {j \in 1..Len(p) : ~exists(f, SubSeq(p, 1, j))}}
\* shutil.rmtree(p): p and everything below it
rmtree(f, p)  == {e \in f : ~IsPrefix(p, e.p)}
\* zfile.extractall(p): every member is written below p, replacing a file
\* of the same path, into directories that are created when missing
extractall(f, content, p) ==
  LET new == Flatten(content, p)
  IN  {e \in f : ~\E x \in new : x.p = e.p} \cup new

\* ----------------------------------------------------------------- state
VARIABLES
  fs,          \* the file system: input tree, output tree, staging workspace
  kwargs,      \* file_type and the keyword arguments given to CATMiner
  pc,          \* where the current call of begin() stands
  stack,       \* the active _dir_crawl frames, innermost last
  cur,         \* the arguments and names of the active _export_file call
  exc,         \* the exception in flight: "none", "error" or "interrupt"
  opened,      \* the documents open in the host application
  attempts,    \* the _cat_type calls made for the document being exported
  browser,     \* the object _cat_type returned to _export_file
  to_convert,  \* self._to_convert
  file_num,    \* self._file_num
  pbar,        \* self._pbar.n, the progress advances made
  log,         \* the records logged since this run's begin()
  run,         \* the number of the current run
  saved,       \* the exporter.save calls of this run
  finished,    \* the executions of _finish() in this run
  faults,      \* the exceptions raised so far, over all the runs
  out0,        \* begin(): the output tree when this run started
  tm           \* one call of a timer-wrapped function

vars == <<fs, kwargs, pc, stack, cur, exc, opened, attempts, browser, to_convert,
          file_num, pbar, log, run, saved, finished, faults, out0, tm>>

NoCur == [in |-> <<>>, out |-> <<>>]
NoTm  == [pc |-> "off", task |-> "", args |-> <<>>, clock |-> 0, start_time |-> 0,
          end_time |-> 0, calls |-> <<>>, output |-> "None", ret |-> "None"]

OutTree(f) == {e \in f : IsPrefix(out_dir_, e.p)}

\* ------------------------------------------------------------- cat_count
\* zipfile.namelist(): the members of an archive, by path inside the archive
RECURSIVE namelist(_, _)
namelist(content, base) ==
  UNION { IF x.t = "dir" THEN namelist(x.c, Join(base, x.n))
          ELSE {[name |-> Join(base, x.n), zip |-> x.zip, bad |-> x.bad, c |-> x.c]}
        : x \in content }

RECURSIVE SumOf(_)
SumOf(f) == IF DOMAIN f = {} THEN 0
            ELSE LET x == CHOOSE y \in DOMAIN f : TRUE
                 IN  f[x] + SumOf([y \in DOMAIN f \ {x} |-> f[y]])

\* process_zip: the .CAT* members of an archive and of the archives in it
RECURSIVE process_zip(_)
process_zip(content) ==
  LET names == namelist(content, <<>>)
  IN  SumOf([m \in names |-> IF type_re_search(m.name) THEN 1
                             ELSE IF m.zip THEN process_zip(m.c) ELSE 0])

\* zipfile.read(name) raises on a member that cannot be read
RECURSIVE process_zip_raises(_)
process_zip_raises(content) ==
  LET names == namelist(content, <<>>)
  IN  \E m \in names :
        \/ m.bad
        \/ ~type_re_search(m.name) /\ m.zip /\ process_zip_raises(m.c)

walk_files(f, path) == {e \in f : e.t = "file" /\ IsPrefix(path, e.p)}

cat_count(f, path) ==
  SumOf([e \in walk_files(f, path) |->
           IF type_re_search(<<Last(e.p)>>) THEN 1
           ELSE IF e.zip THEN process_zip(e.c) ELSE 0])

cat_count_raises(f, path) ==
  \E e \in walk_files(f, path) :
     ~type_re_search(<<Last(e.p)>>) /\ e.zip /\ process_zip_raises(e.c)

\* ----------------------------------------------------------------- logging
\* a record: its level, its kind, its arguments; doc is the path of the file
\* a skip record is about, kept to tell documents of equal name apart
Rec(level, ev, a, b) == [level |-> level, ev |-> ev, a |-> a, b |-> b, doc |-> <<>>]

\* ------------------------------------------------------------------ Init
\* CATMiner.__init__ has run: out/logs and the log file exist
Kwargs ==
  [file_type : {XML, JSON}, skip_ext : {{}, {"Part"}},
   force_export : BOOLEAN, active_doc : BOOLEAN]

\* the defaults of __init__ and of the kwargs.get calls
Defaults == [file_type |-> XML, skip_ext |-> {}, force_export |-> FALSE, active_doc |-> FALSE]

\* the options of the runs over the input trees: the defaults, or one option
\* set to another value
RunKwargs ==
  {kw \in Kwargs : Cardinality({k \in DOMAIN kw : kw[k] # Defaults[k]}) <= 1}

\* self._skip_ext
skip_ext_(kw) == {Lower[i] : i \in kw.skip_ext}

Init ==
  /\ \E t \in Trees :
       fs = Flatten(t, in_dir_) \cup
            {DirEntry(in_dir_), DirEntry(out_dir_), DirEntry(log_path), FileEntry(log_file)}
  /\ kwargs \in RunKwargs
  /\ pc = "ready"
  /\ stack = <<>>
  /\ cur = NoCur
  /\ exc = "none"
  /\ opened = {}
  /\ attempts = 0
  /\ browser = "None"
  /\ to_convert = 0
  /\ file_num = 1
  /\ pbar = 0
  /\ log = <<>>
  /\ run = 1
  /\ saved = <<>>
  /\ finished = 0
  /\ faults = 0
  /\ out0 = {}
  /\ tm = NoTm

\* a _dir_crawl call: os.listdir(in_dir) is read once, on entry
Frame(f, in, out, tmp) == [in |-> in, out |-> out, todo |-> listdir(f, in), tmp |-> tmp]

\* begin(), lines 174-195: count the documents, then enter the crawl
begin ==
  /\ pc = "ready"
  /\ out0' = OutTree(fs)
  /\ IF cat_count_raises(fs, in_dir_)
     THEN \* the exception leaves begin(): the count is outside the try
          /\ pc' = "crashed"
          /\ exc' = "error"
          /\ faults' = faults + 1
          /\ log' = <<Rec("info", "running", <<>>, <<>>), Rec("info", "searching", <<>>, <<>>)>>
          /\ UNCHANGED <<to_convert, stack>>
     ELSE /\ to_convert' = cat_count(fs, in_dir_)
          /\ log' = <<Rec("info", "running", <<>>, <<>>), Rec("info", "searching", <<>>, <<>>),
                      Rec("info", "found", to_convert', <<>>)>>
          /\ pc' = "crawl"
          /\ stack' = <<Frame(fs, in_dir_, out_dir_, <<>>)>>
          /\ UNCHANGED <<exc, faults>>
  /\ UNCHANGED <<fs, kwargs, cur, opened, attempts, browser, file_num, pbar, run,
                 saved, finished, tm>>

\* a user break while cat_count is walking the tree
begin_interrupted ==
  /\ pc = "ready"
  /\ faults < MaxFaults
  /\ out0' = OutTree(fs)
  /\ pc' = "crashed"
  /\ exc' = "interrupt"
  /\ faults' = faults + 1
  /\ log' = <<Rec("info", "running", <<>>, <<>>), Rec("info", "searching", <<>>, <<>>)>>
  /\ UNCHANGED <<fs, kwargs, stack, cur, opened, attempts, browser, to_convert,
                 file_num, pbar, run, saved, finished, tm>>

\* ------------------------------------------------------------ _dir_crawl
extension_dict == [i \in {XML, JSON} |-> IF i = XML THEN "xml" ELSE "json"]

Top == Last(stack)
\* the loop of the innermost frame moves past file
Continue(file) == [stack EXCEPT ![Len(stack)].todo = @ \ {file}]

Skipping(file, reason) ==
  [Rec("warning", "skipping", <<file, file_num, to_convert>>, reason)
     EXCEPT !.doc = Join(Top.in, file)]

\* lines 222-230: a directory is mirrored and crawled
visit_dir ==
  /\ pc = "crawl" /\ stack # <<>>
  /\ \E file \in Top.todo :
       LET file_path == Join(Top.in, file)
           dir_path  == Join(Top.out, file)
           made      == ~exists(fs, dir_path)
       IN  /\ file_path # out_dir_
           /\ isdir(fs, file_path)
           /\ fs' = IF made THEN mkdir(fs, dir_path) ELSE fs
           /\ log' = IF made THEN Append(log, Rec("info", "created", dir_path, <<>>)) ELSE log
           /\ stack' = Append(Continue(file), Frame(fs', file_path, dir_path, <<>>))
  /\ UNCHANGED <<kwargs, pc, cur, exc, opened, attempts, browser, to_convert, file_num,
                 pbar, run, saved, finished, faults, out0, tm>>

\* a staging path made of the base name of the archive alone
tmp_path_flat(new_out_dir) == Join(tmp_dir_, Last(new_out_dir))

\* line 239: the workspace joined with the output-relative path of the
\* mirrored directory of the archive
tmp_path_(new_out_dir) ==
  tmp_dir_ \o SubSeq(new_out_dir, Len(out_dir_) + 1, Len(new_out_dir))

\* lines 235-251: an archive is staged in the workspace and crawled
visit_zip ==
  /\ pc = "crawl" /\ stack # <<>>
  /\ \E file \in Top.todo :
       LET file_path   == Join(Top.in, file)
           names       == file_re_findall(file_path)
           new_out_dir == Join(Top.out, names[1])
           tmp_path    == tmp_path_(new_out_dir)
           made1       == ~exists(fs, new_out_dir)
           fs1         == IF made1 THEN mkdir(fs, new_out_dir) ELSE fs
           made2       == ~exists(fs1, tmp_path)
           fs2         == IF made2 THEN makedirs(fs1, tmp_path) ELSE fs1
           log1        == IF made1 THEN Append(log, Rec("info", "created", new_out_dir, <<>>)) ELSE log
           log2        == IF made2 THEN Append(log1, Rec("info", "created", tmp_path, <<>>)) ELSE log1
           content     == entry(fs, file_path).c
       IN  /\ file_path # out_dir_
           /\ ~isdir(fs, file_path) /\ is_zipfile(fs, file_path)
           /\ ~HasProcessMarker(file_path)
           /\ IF names = <<>>
              THEN \* findall(...)[0] raises IndexError
                   /\ exc' = "error" /\ pc' = "except" /\ UNCHANGED stack
                   /\ faults' = faults + 1
                   /\ UNCHANGED <<fs, log>>
              ELSE IF process_zip_raises(content)
              THEN \* extractall raises on the unreadable member
                   /\ exc' = "error" /\ pc' = "except" /\ UNCHANGED stack
                   /\ faults' = faults + 1
                   /\ fs' = fs2 /\ log' = log2
              ELSE /\ fs' = extractall(fs2, content, tmp_path)
                   /\ log' = log2
                   /\ stack' = Append(Continue(file), Frame(fs', tmp_path, new_out_dir, tmp_path))
                   /\ UNCHANGED <<pc, exc, faults>>
  /\ UNCHANGED <<kwargs, cur, opened, attempts, browser, to_convert, file_num,
                 pbar, run, saved, finished, out0, tm>>

\* a gate that looks for the artifact before it looks at the blacklist
gate_artifact_first(kw, f, found, out, file_loc) ==
  IF ~kw.force_export /\ exists(f, out) /\ exists(f, file_loc)
  THEN "File already exported!"
  ELSE IF found.tail = <<>> /\ Lower[found.kind] \in skip_ext_(kw)
  THEN "File extension in the skip list!"
  ELSE "export"

\* lines 258-278: the export gate, the reason of the skip or "export"
gate(kw, f, found, out, file_loc) ==
  IF found.tail = <<>> /\ Lower[found.kind] \in skip_ext_(kw)
  THEN "File extension in the skip list!"
  ELSE IF ~kw.force_export /\ exists(f, out) /\ exists(f, file_loc)
  THEN "File already exported!"
  ELSE "export"

\* lines 255-278: a .CAT* file goes through the export gate
visit_cat ==
  /\ pc = "crawl" /\ stack # <<>>
  /\ \E file \in Top.todo :
       LET file_path == Join(Top.in, file)
           found     == type_re_find(file_path)
           file_loc  == Join(Top.out, file \o <<extension_dict[kwargs.file_type]>>)
           verdict   == gate(kwargs, fs, found, Top.out, file_loc)
       IN  /\ file_path # out_dir_
           /\ ~isdir(fs, file_path) /\ isfile(fs, file_path)
           /\ ~(is_zipfile(fs, file_path) /\ ~HasProcessMarker(file_path))
           /\ type_re_search(file_path)
           /\ IF verdict # "export"
              THEN /\ log' = Append(log, Skipping(file, verdict))
                   /\ file_num' = file_num + 1
                   /\ pbar' = pbar + 1
                   /\ stack' = Continue(file)
                   /\ UNCHANGED <<pc, cur>>
              ELSE /\ pc' = "export"
                   /\ cur' = [in |-> file_path, out |-> Top.out]
                   /\ stack' = Continue(file)
                   /\ UNCHANGED <<log, file_num, pbar>>
  /\ UNCHANGED <<fs, kwargs, exc, opened, attempts, browser, to_convert, run, saved,
                 finished, faults, out0, tm>>

\* lines 219-220 and the entries no branch takes: the output directory, a
\* file that is neither archive nor .CAT*, an entry that is gone
visit_other ==
  /\ pc = "crawl" /\ stack # <<>>
  /\ \E file \in Top.todo :
       LET file_path == Join(Top.in, file)
       IN  /\ \/ file_path = out_dir_
              \/ ~isdir(fs, file_path) /\ ~isfile(fs, file_path)
              \/ /\ isfile(fs, file_path)
                 /\ ~(is_zipfile(fs, file_path) /\ ~HasProcessMarker(file_path))
                 /\ ~type_re_search(file_path)
           /\ stack' = Continue(file)
  /\ UNCHANGED <<fs, kwargs, pc, cur, exc, opened, attempts, browser, to_convert,
                 file_num, pbar, log, run, saved, finished, faults, out0, tm>>

\* the loop of the innermost frame is over: _dir_crawl returns; the caller
\* of a staged archive then removes the staging directory (lines 252-253)
return ==
  /\ pc = "crawl" /\ stack # <<>> /\ Top.todo = {}
  /\ IF Top.tmp = <<>>
     THEN /\ stack' = Front(stack)
          /\ pc' = IF Len(stack) = 1 THEN "finish" ELSE "crawl"
          /\ UNCHANGED <<fs, log, exc, faults>>
     ELSE IF exists(fs, Top.tmp)
     THEN /\ log' = Append(log, Rec("info", "removing", Top.tmp, <<>>))
          /\ fs' = rmtree(fs, Top.tmp)
          /\ stack' = Front(stack)
          /\ UNCHANGED <<pc, exc, faults>>
     ELSE \* shutil.rmtree raises FileNotFoundError
          /\ log' = Append(log, Rec("info", "removing", Top.tmp, <<>>))
          /\ exc' = "error" /\ pc' = "except" /\ UNCHANGED stack
          /\ faults' = faults + 1
          /\ UNCHANGED fs
  /\ UNCHANGED <<kwargs, cur, opened, attempts, browser, to_convert, file_num, pbar,
                 run, saved, finished, out0, tm>>

\* a user break while the crawl is between two documents
crawl_interrupted ==
  /\ pc = "crawl"
  /\ faults < MaxFaults
  /\ exc' = "interrupt" /\ pc' = "except" /\ UNCHANGED stack
  /\ faults' = faults + 1
  /\ UNCHANGED <<fs, kwargs, cur, opened, attempts, browser, to_convert, file_num,
                 pbar, log, run, saved, finished, out0, tm>>

\* ------------------------------------------------------------------ timer
started_(task)        == Rec("info", "started", task, <<>>)
\* f"{x:.4f}": seconds with four decimals, of a duration in units of 10^-5 s
Format4(d)            == (d + 5) \div 10
finished_(task, secs) == Rec("info", "finished", task, secs)

\* the records wrapper() logs around one call that returns, lines 34-41
timer_before(task)       == <<started_(task)>>
timer_after(task, d)     == <<finished_(task, Format4(d))>>
\* a wrapper() that drops the value of func
wrapper_return_none(output) == "None"

\* the value wrapper() returns for the value func returned, line 43
wrapper_return(output)   == output
\* the calls of func wrapper() makes with the arguments it was given, line 37
wrapper_calls(args)      == <<args>>

\* -------------------------------------------------------------- _cat_type
\* lines 301-315: the object the resolution selects when the host is ready
cat_object(kw, found) ==
  IF kw.active_doc THEN "ActiveDocument"
  ELSE IF found.tail = <<>> /\ found.kind = "Product" THEN "ActiveDocument.Product"
  ELSE IF found.tail = <<>> /\ found.kind = "Part"    THEN "ActiveDocument.Part"
  ELSE IF found.tail = <<>> /\ found.kind = "Drawing" THEN "ActiveDocument.DrawingRoot"
  ELSE IF found.tail = <<>> /\ found.kind = "Process" THEN "ActiveDocument.PPRDocument"
  ELSE "ActiveDocument"

\* what the outermost _cat_type call returns once the n-th call resolved:
\* a call whose own attempt failed keeps the application object, the value
\* of the call it made in the except block is dropped (line 319)
cat_type_return(kw, found, n) ==
  IF n = 1 THEN cat_object(kw, found) ELSE "Application"

\* may a call whose attempt failed try again (lines 316-319: always)
may_retry(n) == TRUE

\* ----------------------------------------------------------- _export_file
file_name_(path) == file_re_findall(path)[1]
file_type_(path) == type_re_find(path).kind
full_name_(path) == file_name_(path) \o <<CatSeg[file_type_(path)]>>
Task(path)       == <<"export", full_name_(path), file_num, to_convert>>

\* exporter.save(name, path) writes <name>.<ext> in path
artifact(kw, name, path) == Join(path, name \o <<extension_dict[IF kw.file_type = 1 THEN JSON ELSE XML]>>)

\* lines 340-346: the document is opened in the host
open_doc ==
  /\ pc = "export"
  /\ log' = Append(log, Rec("info", "opening", <<full_name_(cur.in), file_num, to_convert>>, <<>>))
  /\ opened' = opened \cup {cur.in}
  /\ attempts' = 0
  /\ pc' = "cat_type"
  /\ UNCHANGED <<fs, kwargs, stack, cur, exc, browser, to_convert, file_num, pbar,
                 run, saved, finished, faults, out0, tm>>

\* Documents.Open raises: nothing was opened, the try block is not entered
open_fails ==
  /\ pc = "export"
  /\ faults < MaxFaults
  /\ log' = Append(log, Rec("info", "opening", <<full_name_(cur.in), file_num, to_convert>>, <<>>))
  /\ exc' = "error" /\ pc' = "except" /\ UNCHANGED stack
  /\ cur' = NoCur
  /\ faults' = faults + 1
  /\ UNCHANGED <<fs, kwargs, opened, attempts, browser, to_convert, file_num, pbar,
                 run, saved, finished, out0, tm>>

\* lines 297-324, the host is ready: the attempt resolves the object
cat_type_resolves ==
  /\ pc = "cat_type"
  /\ attempts' = attempts + 1
  /\ browser' = cat_type_return(kwargs, type_re_find(cur.in), attempts')
  /\ pc' = "save"
  /\ UNCHANGED <<fs, kwargs, stack, cur, exc, opened, to_convert, file_num, pbar, log,
                 run, saved, finished, faults, out0, tm>>

\* lines 316-319, the host is not ready: AttributeError, sleep, call again
cat_type_not_ready ==
  /\ pc = "cat_type"
  /\ attempts + 1 < MaxAttempts
  /\ attempts = 0 \/ may_retry(attempts)
  /\ attempts' = attempts + 1
  /\ UNCHANGED <<fs, kwargs, pc, stack, cur, exc, opened, browser, to_convert, file_num,
                 pbar, log, run, saved, finished, faults, out0, tm>>

\* lines 352-362: the export is saved under the timer, progress advances
save ==
  /\ pc = "save"
  /\ log' = log \o timer_before(Task(cur.in)) \o timer_after(Task(cur.in), 0)
  /\ fs' = {e \in fs : e.p # artifact(kwargs, full_name_(cur.in), cur.out)}
             \cup {FileEntry(artifact(kwargs, full_name_(cur.in), cur.out))}
  /\ saved' = Append(saved, [doc |-> cur.in, name |-> full_name_(cur.in), out |-> cur.out])
  /\ file_num' = file_num + 1
  /\ pbar' = pbar + 1
  /\ pc' = "close"
  /\ UNCHANGED <<kwargs, stack, cur, exc, opened, attempts, browser, to_convert, run,
                 finished, faults, out0, tm>>

\* exporter.save raises inside the timer
save_fails ==
  /\ pc = "save"
  /\ faults < MaxFaults
  /\ log' = log \o timer_before(Task(cur.in))
  /\ exc' = "error"
  /\ faults' = faults + 1
  /\ pc' = "close"
  /\ UNCHANGED <<fs, kwargs, stack, cur, opened, attempts, browser, to_convert, file_num,
                 pbar, run, saved, finished, out0, tm>>

\* a user break while the document is open (resolution, sleep or export)
export_interrupted ==
  /\ pc \in {"cat_type", "save"}
  /\ faults < MaxFaults
  /\ exc' = "interrupt"
  /\ faults' = faults + 1
  /\ pc' = "close"
  /\ UNCHANGED <<fs, kwargs, stack, cur, opened, attempts, browser, to_convert, file_num,
                 pbar, log, run, saved, finished, out0, tm>>

\* a finally block that closes nothing
closes_nothing(doc) == {}

\* the documents opened_file.Close() closes, line 365
closes(doc) == {doc}

\* a finally block that swallows the exception in flight
reraise_never(e) == FALSE

\* lines 363-366: leaving the finally block re-raises the exception in flight
reraise(e) == e # "none"

\* lines 363-366: the finally block, then the return or the re-raise
close_doc ==
  /\ pc = "close"
  /\ opened' = opened \ closes(cur.in)
  /\ cur' = NoCur
  /\ attempts' = 0
  /\ browser' = "None"
  /\ IF ~reraise(exc)
     THEN pc' = "crawl" /\ UNCHANGED stack
     ELSE pc' = "except" /\ UNCHANGED stack
  /\ UNCHANGED <<fs, kwargs, exc, to_convert, file_num, pbar, log,
                 run, saved, finished, faults, out0, tm>>

\* ------------------------------------------------------- begin, the handlers
\* lines 196-204: the frames of the crawl are gone, both except clauses log
\* and swallow the exception
except ==
  /\ pc = "except"
  /\ log' = Append(log, IF exc = "interrupt" THEN Rec("critical", "user break", <<>>, <<>>)
                        ELSE Rec("critical", "traceback", <<>>, <<>>))
  /\ exc' = "none"
  /\ stack' = <<>>
  /\ pc' = "finish"
  /\ UNCHANGED <<fs, kwargs, cur, opened, attempts, browser, to_convert, file_num,
                 pbar, run, saved, finished, faults, out0, tm>>

\* ---------------------------------------------------------- rm_empty_dirs
\* line 99
rm_empty_dirs_returns(had_file) == TRUE

RECURSIVE rm_empty_dirs(_, _)
rm_empty_dirs(f, path) ==
  LET names == listdir(f, path)
      RECURSIVE Loop(_, _, _)
      \* g: the file system so far, file_exists: the flag so far
      Loop(g, file_exists, todo) ==
        IF todo = {} THEN [fs |-> g, file_exists |-> file_exists]
        ELSE LET file      == CHOOSE x \in todo : TRUE
                 file_path == Join(path, file)
             IN  IF isdir(g, file_path)
                 THEN LET sub == rm_empty_dirs(g, file_path)
                      IN  Loop(sub.fs, sub.ret, todo \ {file})
                 ELSE Loop(g, TRUE, todo \ {file})
      done == Loop(f, FALSE, names)
  IN  [fs  |-> IF ~done.file_exists THEN done.fs \ {DirEntry(path)} ELSE done.fs,
       ret |-> rm_empty_dirs_returns(done.file_exists)]

\* ---------------------------------------------------------------- _finish
\* a _finish() that leaves the workspace where it is
remove_tmp_dir_skipped(f) == f

\* lines 372-377: the workspace is removed, FileNotFoundError is swallowed
remove_tmp_dir(f) == IF exists(f, tmp_dir_) THEN rmtree(f, tmp_dir_) ELSE f

\* lines 368-385
finish ==
  /\ pc = "finish"
  /\ LET found == exists(fs, tmp_dir_)
         fs1   == remove_tmp_dir(fs)
     IN  /\ fs' = rm_empty_dirs(fs1, out_dir_).fs
         /\ log' = log \o <<Rec("info", "removing", tmp_dir_, <<>>)>>
                       \o (IF found THEN <<>> ELSE <<Rec("error", "not found", tmp_dir_, <<>>)>>)
                       \o <<Rec("info", "finished batch", <<>>, <<>>)>>
  /\ finished' = finished + 1
  /\ pc' = "done"
  /\ UNCHANGED <<kwargs, stack, cur, exc, opened, attempts, browser, to_convert,
                 file_num, pbar, run, saved, faults, out0, tm>>

\* CATMiner(in_dir, out_dir, ...) is constructed again on the same directories
again ==
  /\ pc \in {"done", "crashed"}
  /\ run < MaxRuns
  /\ run' = run + 1
  /\ pc' = "ready"
  /\ fs' = makedirs(fs, log_path) \cup {FileEntry(log_file)}
  /\ exc' = "none"
  /\ browser' = "None"
  /\ to_convert' = 0
  /\ file_num' = 1
  /\ pbar' = 0
  /\ attempts' = 0
  /\ log' = <<>>
  /\ saved' = <<>>
  /\ finished' = 0
  /\ out0' = {}
  /\ UNCHANGED <<kwargs, stack, cur, opened, faults, tm>>

Next ==
  \/ begin \/ begin_interrupted
  \/ visit_dir \/ visit_zip \/ visit_cat \/ visit_other \/ return \/ crawl_interrupted
  \/ open_doc \/ open_fails \/ cat_type_resolves \/ cat_type_not_ready
  \/ save \/ save_fails \/ export_interrupted \/ close_doc
  \/ except \/ finish \/ again

Spec == Init /\ [][Next]_vars

\* =========================================================================
\* timer(task)(func)(*args), lines 27-47, on its own: one call of wrapper()
\* =========================================================================
Tasks     == {"wasting time", "export"}
ArgsSet   == {<<>>, <<"full_name", "out_dir">>}
Outputs   == {"None", "a", "b"}
Durations == {0, 4, 26}      \* of func, in units of 10^-5 s

InitTimer ==
  /\ fs = {DirEntry(in_dir_), DirEntry(out_dir_), DirEntry(log_path), FileEntry(log_file)}
  /\ kwargs = [file_type |-> XML, skip_ext |-> {}, force_export |-> FALSE, active_doc |-> FALSE]
  /\ pc = "ready"
  /\ stack = <<>>
  /\ cur = NoCur
  /\ exc = "none"
  /\ opened = {}
  /\ attempts = 0
  /\ browser = "None"
  /\ to_convert = 0
  /\ file_num = 1
  /\ pbar = 0
  /\ log = <<>>
  /\ run = 1
  /\ saved = <<>>
  /\ finished = 0
  /\ faults = 0
  /\ out0 = {}
  /\ \E task \in Tasks, args \in ArgsSet :
       tm = [pc |-> "wrapper", task |-> task, args |-> args, clock |-> 0,
             start_time |-> 0, end_time |-> 0, calls |-> <<>>, output |-> "None",
             ret |-> "None"]

timerUnchanged == <<fs, kwargs, pc, stack, cur, exc, opened, attempts, browser, to_convert,
                    file_num, pbar, run, saved, finished, faults, out0>>

\* lines 32-35: read the clock, log the start
tm_start ==
  /\ tm.pc = "wrapper"
  /\ tm' = [tm EXCEPT !.pc = "func", !.start_time = tm.clock]
  /\ log' = log \o timer_before(tm.task)
  /\ UNCHANGED timerUnchanged

\* line 37: func runs for some time and returns a value
tm_func ==
  /\ tm.pc = "func"
  /\ \E output \in Outputs, d \in Durations :
       tm' = [tm EXCEPT !.pc = "after", !.output = output, !.clock = tm.clock + d,
                        !.calls = @ \o [i \in 1..Len(wrapper_calls(tm.args)) |->
                                          [args |-> wrapper_calls(tm.args)[i], at |-> Len(log)]]]
  /\ UNCHANGED <<log, timerUnchanged>>

\* line 37: func raises, wrapper() is left at once
tm_func_raises ==
  /\ tm.pc = "func"
  /\ tm' = [tm EXCEPT !.pc = "raised",
                      !.calls = @ \o [i \in 1..Len(wrapper_calls(tm.args)) |->
                                        [args |-> wrapper_calls(tm.args)[i], at |-> Len(log)]]]
  /\ UNCHANGED <<log, timerUnchanged>>

\* lines 38-41: read the clock, log the end
tm_finish ==
  /\ tm.pc = "after"
  /\ tm' = [tm EXCEPT !.pc = "return", !.end_time = tm.clock]
  /\ log' = log \o timer_after(tm.task, tm'.end_time - tm.start_time)
  /\ UNCHANGED timerUnchanged

\* line 43
tm_return ==
  /\ tm.pc = "return"
  /\ tm' = [tm EXCEPT !.pc = "returned", !.ret = wrapper_return(tm.output)]
  /\ UNCHANGED <<log, timerUnchanged>>

NextTimer == tm_start \/ tm_func \/ tm_func_raises \/ tm_finish \/ tm_return

SpecTimer == InitTimer /\ [][NextTimer]_vars

\* =========================================================================
\* the crawl into an output root that holds artifacts of earlier exports
\* =========================================================================
GateTrees ==
  { {Doc(nD), Doc(nC)},
    {Dir(<<"B">>, {Doc(nC)})},
    {Zip(<<"B", "zip">>, {Doc(nC)})},
    {Dir(<<"a">>, {Dir(<<"b">>, {Doc(<<"readme", "txt">>)})})} }

\* exporter.save has written these, as XML, in the output root
OldArtifacts == {artifact([file_type |-> XML], nD, out_dir_),
                 artifact([file_type |-> XML], nC, out_dir_)}

InitGate ==
  /\ \E t \in GateTrees, old \in SUBSET OldArtifacts :
       fs = Flatten(t, in_dir_) \cup {FileEntry(p) : p \in old} \cup
            {DirEntry(in_dir_), DirEntry(out_dir_), DirEntry(log_path), FileEntry(log_file)}
  /\ kwargs \in Kwargs
  /\ pc = "ready"
  /\ stack = <<>>
  /\ cur = NoCur
  /\ exc = "none"
  /\ opened = {}
  /\ attempts = 0
  /\ browser = "None"
  /\ to_convert = 0
  /\ file_num = 1
  /\ pbar = 0
  /\ log = <<>>
  /\ run = 1
  /\ saved = <<>>
  /\ finished = 0
  /\ faults = 0
  /\ out0 = {}
  /\ tm = NoTm

SpecGate == InitGate /\ [][Next]_vars

\* =========================================================================
\* Properties
\* =========================================================================
\* the input tree, as nodes
RECURSIVE Unflatten(_, _)
Unflatten(f, d) ==
  { [n |-> Last(e.p), t |-> e.t, zip |-> e.zip, bad |-> e.bad,
     c |-> IF e.t = "dir" THEN Unflatten(f, e.p) ELSE e.c]
    : e \in {x \in f : Len(x.p) = Len(d) + 1 /\ Front(x.p) = d} }

InputTree == Unflatten(fs, in_dir_)

IsDocument(x) == x.t = "file" /\ type_re_search(<<x.n>>)
IsArchive(x)  == x.t = "file" /\ x.zip /\ ~IsDocument(x)

\* nodes holds a .CAT* document, at any depth
RECURSIVE HasDoc(_)
HasDoc(nodes) ==
  \E x \in nodes : \/ IsDocument(x)
                   \/ (x.t = "dir" \/ IsArchive(x)) /\ HasDoc(x.c)

\* the mirrors of the directories that hold a document
RECURSIVE Mirrors(_, _)
Mirrors(nodes, out) ==
  UNION { IF x.t = "dir" /\ HasDoc(x.c)
          THEN {Join(out, x.n)} \cup Mirrors(x.c, Join(out, x.n))
          ELSE {}
        : x \in nodes }

NoArchive == \A e \in fs : IsPrefix(in_dir_, e.p) => ~e.zip

OutDirs == {e.p : e \in {x \in fs : x.t = "dir" /\ IsPrefix(out_dir_, x.p)
                                    /\ x.p # out_dir_ /\ x.p # log_path}}

Skips(reason) == {i \in 1..Len(log) : log[i].ev = "skipping" /\ log[i].b = reason}
AllSkips      == {i \in 1..Len(log) : log[i].ev = "skipping"}
Has(ev, a)    == \E i \in 1..Len(log) : log[i].ev = ev /\ log[i].a = a

\* the documents of nodes whose kind is in the extension blacklist
RECURSIVE Blacklisted(_)
Blacklisted(nodes) ==
  SumOf([x \in nodes |->
           IF IsDocument(x)
           THEN (IF Lower[CatKind[Last(x.n)]] \in {Lower[i] : i \in kwargs.skip_ext} THEN 1 ELSE 0)
           ELSE IF x.t = "dir" \/ IsArchive(x) THEN Blacklisted(x.c) ELSE 0])

\* C1: after a fault-free first run the directories under the output root,
\* logs aside, are exactly the mirrors of the input directories that hold a
\* .CAT* document at some depth (stated for the input trees without an
\* archive and the runs with an empty blacklist).
C1_MirrorsExactly ==
  (pc = "done" /\ run = 1 /\ faults = 0 /\ NoArchive /\ kwargs.skip_ext = {})
    => OutDirs = Mirrors(InputTree, out_dir_)

\* C2: a second fault-free run with force_export false (here: with an empty
\* blacklist) exports nothing, leaves the output tree as the first run left
\* it, and logs every document as skipped because it was already exported.
C2_Idempotent ==
  (pc = "done" /\ run = 2 /\ faults = 0 /\ ~kwargs.force_export /\ kwargs.skip_ext = {})
    => /\ saved = <<>>
       /\ OutTree(fs) = out0
       /\ AllSkips = Skips("File already exported!")
       /\ Cardinality(AllSkips) = to_convert

\* C3: at the end of a fault-free run the progress advances equal the count
\* cat_count returned before the crawl.
C3_AdvancesEqualCount ==
  (pc = "done" /\ faults = 0) => pbar = to_convert

\* C4: once begin() has ended, normally or not, nothing of the staging
\* workspace ".catminer" is left under the output root.
C4_NoWorkspaceAfterRun ==
  pc \in {"done", "crashed"} => \A e \in fs : ~IsPrefix(tmp_dir_, e.p)

\* a run that failed while the archive nested in Z.zip was staged has ended
C4_Witness ==
  /\ pc = "done"
  /\ \E i \in 1..Len(log) : log[i].level = "critical"
  /\ Has("created", Join(tmp_dir_, <<"Z">>))
  /\ \E i \in 1..Len(log) : log[i].ev = "opening" /\ log[i].a[1] = nC
  /\ ~Has("removing", Join(Join(tmp_dir_, <<"Z">>), <<"B">>))

\* C5: at the end of a fault-free run every blacklisted document of the input
\* tree has exactly one skip record, with the reason "File extension in the
\* skip list!", and was neither opened nor exported nor given an artifact.
C5_BlacklistedSkippedOnce ==
  (pc = "done" /\ faults = 0)
    => LET S == Skips("File extension in the skip list!")
       IN  /\ Cardinality(S) = Blacklisted(InputTree)
           /\ \A i, j \in S : log[i].doc = log[j].doc => i = j
           /\ \A i \in S : /\ \A k \in 1..Len(saved) : saved[k].doc # log[i].doc
                           /\ ~exists(fs, Join(Front(log[i].doc),
                                   Last(log[i].doc) \o <<extension_dict[kwargs.file_type]>>))

\* C6: at most one document is open at any moment, and none is open outside
\* the part of _export_file between Open and Close.
C6_OneOpenAtATime ==
  /\ Cardinality(opened) <= 1
  /\ pc \notin {"cat_type", "save", "close"} => opened = {}

\* the export of an opened document has raised and the document is closed
C6_Witness ==
  /\ pc = "except" /\ exc = "error"
  /\ opened = {}
  /\ Len(log) > 0 /\ Last(log).ev = "started"

\* C7: no exception leaves begin(), and _finish() has run exactly once when
\* begin() is over.
C7_FinishAlways ==
  /\ pc # "crashed"
  /\ pc = "done" => finished = 1

\* C8: the object _cat_type returns, which is then exported, is the one the
\* resolution rule fixes, also after a retry.
C8_ResolutionRule ==
  pc = "save" =>
    LET kind == type_re_find(cur.in).kind
    IN  browser = IF kwargs.active_doc THEN "ActiveDocument"
                  ELSE CASE kind = "Product" -> "ActiveDocument.Product"
                         [] kind = "Part"    -> "ActiveDocument.Part"
                         [] kind = "Drawing" -> "ActiveDocument.DrawingRoot"
                         [] kind = "Process" -> "ActiveDocument.PPRDocument"
                         [] OTHER            -> "ActiveDocument"

\* C9: a call of a timer-wrapped function that returns has called the
\* function once, with the arguments given, after the one "Started" record
\* and before the one "Finished" record, and returns the function's value.
C9_TimerBrackets ==
  tm.pc = "returned" =>
    /\ tm.calls = <<[args |-> tm.args, at |-> 1]>>
    /\ tm.ret = tm.output
    /\ Len(log) = 2
    /\ log[1] = Rec("info", "started", tm.task, <<>>)
    /\ log[2].level = "info" /\ log[2].ev = "finished" /\ log[2].a = tm.task

\* a call with two arguments has returned the value "a" of the function
C9_Witness ==
  tm.pc = "returned" /\ tm.output = "a" /\ Len(tm.args) = 2 /\ Len(tm.calls) = 1

\* C10: at most two resolution attempts are made for an opened document.
C10_BoundedRetry == attempts <= 2

\* the staging directories of the archive expansions in progress, outermost
\* first
Staging == [i \in {j \in 1..Len(stack) : stack[j].tmp # <<>>} |-> stack[i].tmp]

\* C11: when control leaves the processing of a staged archive its staging
\* directory is gone: when an exception has left the frames of the crawl no
\* staging directory of these frames exists, and a staging directory whose
\* removal was logged exists only while it is staged again.
C11_StagingRemovedOnLeave ==
  /\ pc = "except" => \A i \in DOMAIN Staging : ~exists(fs, Staging[i])
  /\ \A k \in 1..Len(log) :
       (log[k].ev = "removing" /\ log[k].a # tmp_dir_ /\ exists(fs, log[k].a))
         => \E i \in DOMAIN Staging : Staging[i] = log[k].a

\* C12: the staging directories of the archive expansions in progress are
\* pairwise distinct, lie under the workspace root, and each is the workspace
\* root joined with the output-relative path of the mirrored directory of
\* its archive.
C12_StagingDistinct ==
  /\ \A i, j \in DOMAIN Staging : Staging[i] = Staging[j] => i = j
  /\ \A i \in DOMAIN Staging :
       /\ IsPrefix(tmp_dir_, Staging[i]) /\ Staging[i] # tmp_dir_
       /\ IsPrefix(out_dir_, stack[i].out)
       /\ Staging[i] = tmp_dir_ \o SubSeq(stack[i].out, Len(out_dir_) + 1, Len(stack[i].out))

\* the archive nested in a staged archive is being crawled:
\* two expansions are in progress, one inside the other
C12_Witness ==
  /\ pc = "crawl"
  /\ Cardinality(DOMAIN Staging) = 2
  /\ \E i, j \in DOMAIN Staging : i < j /\ IsPrefix(Staging[i], Staging[j])
                                       /\ Len(Staging[j]) > 3

\* the files of the input tree that bear an archive signature
InputArchives == {e \in fs : IsPrefix(in_dir_, e.p) /\ e.t = "file" /\ e.zip}

\* the staging directory of the archive at path p of the input tree
StagingOf(p) == tmp_dir_ \o SubSeq(p, Len(in_dir_) + 1, Len(p) - 1) \o <<Front(Last(p))>>

\* C13: at the end of a fault-free first run every file of the input tree
\* with an archive signature was staged and crawled and never treated as a
\* document, unless the file itself is a .CATProcess document, which was
\* exported and never staged; a process marker elsewhere in the name of the
\* archive or of a directory above it makes no difference.
C13_Classification ==
  (pc = "done" /\ run = 1 /\ faults = 0) =>
    \A e \in InputArchives :
      IF Last(Last(e.p)) = "CATProcess"
      THEN /\ \E k \in 1..Len(saved) : saved[k].doc = e.p
           /\ ~Has("removing", StagingOf(e.p))
      ELSE /\ Has("removing", StagingOf(e.p))
           /\ \A k \in 1..Len(saved) : saved[k].doc # e.p
           /\ \A i \in AllSkips : log[i].doc # e.p

\* the kind of the document at path p is in the extension blacklist
InSkipList(p) == Lower[CatKind[Last(Last(p))]] \in {Lower[i] : i \in kwargs.skip_ext}

\* the artifact the already-exported check looks for, for document p
\* mirrored in directory out
ExpectedArtifact(p, out) == Join(out, Last(p) \o <<extension_dict[kwargs.file_type]>>)

\* C14: the export gate.  A document goes on to the export only if it is not
\* blacklisted and either force_export is set or its artifact is missing; a
\* skip is logged as a warning with the running index and the total and
\* advances the progress by one; a blacklisted document is skipped with the
\* reason "File extension in the skip list!" whether or not its artifact
\* exists, and the reason "File already exported!" is given only to a
\* document that is not blacklisted, with force_export unset and the
\* artifact present.
C14_GateOrder ==
  [][ /\ (pc = "crawl" /\ pc' = "export") =>
           /\ ~InSkipList(cur'.in)
           /\ kwargs.force_export \/ ~exists(fs, ExpectedArtifact(cur'.in, cur'.out))
           /\ pbar' = pbar /\ file_num' = file_num
      /\ (pc = "crawl" /\ Len(log') = Len(log) + 1 /\ log'[Len(log')].ev = "skipping") =>
           LET r == log'[Len(log')]
           IN  /\ r.level = "warning"
               /\ r.a = <<Last(r.doc), file_num, to_convert>>
               /\ pbar' = pbar + 1 /\ file_num' = file_num + 1
               /\ pc' = "crawl"
               /\ IF InSkipList(r.doc)
                  THEN r.b = "File extension in the skip list!"
                  ELSE /\ r.b = "File already exported!"
                       /\ ~kwargs.force_export
                       /\ exists(fs, ExpectedArtifact(r.doc, Top.out))
    ]_vars

\* with force_export set and Part blacklisted, a run over D.CATPart and
\* C.CATProduct, both with an artifact of an earlier export, has skipped the
\* first for its extension and exported the second again
C14_Witness ==
  /\ pc = "done" /\ run = 1 /\ kwargs.force_export /\ kwargs.file_type = XML
  /\ \E i \in Skips("File extension in the skip list!") :
       /\ log[i].doc = Join(in_dir_, nD)
       /\ \E e \in out0 : e.p = ExpectedArtifact(log[i].doc, out_dir_)
  /\ \E k \in 1..Len(saved) :
       /\ saved[k].doc = Join(in_dir_, nC)
       /\ \E e \in out0 : e.p = ExpectedArtifact(saved[k].doc, out_dir_)
  /\ Skips("File already exported!") = {}

\* directory d of file system f holds a file, directly or transitively
HoldsFile(f, d) == \E e \in f : e.t = "file" /\ IsPrefix(d, e.p)

\* C15: rm_empty_dirs(out_dir), as _finish() calls it once the workspace is
\* removed: afterwards no directory of the output tree is without a file at
\* some depth below it, every file and every directory that holds a file at
\* some depth is still there, and nothing was added.
C15_RmEmptyDirs ==
  [][ (pc = "finish" /\ pc' = "done") =>
        LET pre  == {e \in OutTree(fs) : ~IsPrefix(tmp_dir_, e.p)}
            post == OutTree(fs')
        IN  /\ \A d \in post : d.t = "dir" => HoldsFile(post, d.p)
            /\ \A e \in pre : (e.t = "file" \/ HoldsFile(pre, e.p)) => e \in post
            /\ post \subseteq pre
    ]_vars

\* the records after which an export did not go on: an "Opening" record not
\* followed by the start of the export, a "Started" record not followed by
\* its "Finished" record
FailedExports ==
  {i \in 1..(Len(log) - 1) :
     \/ log[i].ev = "opening" /\ log[i + 1].ev # "started"
     \/ log[i].ev = "started" /\ log[i + 1].ev # "finished"}

\* C16: when the export of a document raises, the next record is the one of
\* the top-level handler and only the records of _finish() follow it: no
\* document is opened, exported or skipped afterwards; the progress and
\* _file_num stand where they stood before the failing document, the
\* document is closed, the crawl is over and _finish() runs once.
C16_FailingExportAborts ==
  \A i \in FailedExports :
    /\ log[i + 1].level = "critical"
    /\ \A j \in (i + 2)..Len(log) : log[j].ev \in {"removing", "not found", "finished batch"}
    /\ pbar = Cardinality({j \in 1..i : log[j].ev \in {"skipping", "finished"}})
    /\ file_num = pbar + 1
    /\ Len(saved) = Cardinality({j \in 1..i : log[j].ev = "finished"})
    /\ opened = {}
    /\ stack = <<>>
    /\ pc \in {"finish", "done"}
    /\ pc = "done" => finished = 1

\* exporter.save raised for the first of two documents; the run is over and
\* the second document was never visited
C16_Witness ==
  /\ pc = "done" /\ to_convert = 2 /\ pbar = 0
  /\ \E i \in FailedExports : log[i].ev = "started"
  /\ \A i \in 1..Len(log) : log[i].ev = "opening" => log[i].a[2] = 1

\* the .CAT* files of nodes that can be read, in directories and archives
RECURSIVE ReadableDocs(_)
ReadableDocs(nodes) ==
  SumOf([x \in nodes |->
           IF IsDocument(x) THEN (IF x.bad THEN 0 ELSE 1)
           ELSE IF x.t = "dir" \/ IsArchive(x) THEN ReadableDocs(x.c) ELSE 0])

\* C17: an archive member that cannot be read does not make cat_count raise:
\* only a user break ends begin() before the crawl, and the count the crawl
\* starts with is the number of readable .CAT* files of the input tree.
C17_UnreadableMemberSkipped ==
  /\ pc = "crashed" => exc = "interrupt"
  /\ pc \in {"crawl", "export", "cat_type", "save", "close", "except", "finish", "done"}
       => to_convert = ReadableDocs(InputTree)

\* C18: _file_num - 1 is the number of progress advances made, and the
\* running index of every "Opening" and "Skipping" record lies between 1 and
\* the total, the count obtained before the crawl.
C18_ProgressIndex ==
  /\ file_num - 1 = pbar
  /\ \A i \in 1..Len(log) :
       log[i].ev \in {"opening", "skipping"}
         => /\ log[i].a[3] = to_convert
            /\ 1 <= log[i].a[2] /\ log[i].a[2] <= log[i].a[3]

\* C19: the name _export_file hands to the exporter is the file name of the
\* document, so the artifact written is the path the already-exported check
\* of _dir_crawl tests for that document, whatever the names of the
\* directories above it.
C19_NamingConsistent ==
  \A k \in 1..Len(saved) :
    /\ saved[k].name = Last(saved[k].doc)
    /\ artifact(kwargs, saved[k].name, saved[k].out) = ExpectedArtifact(saved[k].doc, saved[k].out)
    /\ exists(fs, ExpectedArtifact(saved[k].doc, saved[k].out))

\* what file system f holds at path p and below it
Under(f, p) == {e \in f : IsPrefix(p, e.p)}

\* the visits of the document at path p in this run: its skips and exports
Visits(p) ==
  Cardinality({i \in AllSkips : log[i].doc = p})
    + Cardinality({k \in 1..Len(saved) : saved[k].doc = p})

\* C20: no step of the crawl adds to, overwrites or deletes anything at or
\* below an entry that an active _dir_crawl call has still to visit, and no
\* document is visited more than once in a run.
C20_StagingIsolation ==
  [][ /\ \A i \in 1..Len(stack') :
           i <= Len(stack) =>
             \A file \in stack'[i].todo \cap stack[i].todo :
               stack'[i].in = stack[i].in
                 => Under(fs', Join(stack[i].in, file)) = Under(fs, Join(stack[i].in, file))
      /\ \A k \in 1..Len(saved') : Visits(saved[k].doc)' <= 1
      /\ \A j \in AllSkips' : Visits(log[j].doc)' <= 1
    ]_vars

\* C21: on a fault-free first run into an empty output root with an empty
\* blacklist no document is skipped as already exported, no two exports
\* write the same artifact, and at the end every document of the input tree,
\* in directories and in archives, has been exported.
C21_ArtifactInjective ==
  (run = 1 /\ faults = 0 /\ kwargs.skip_ext = {}) =>
    /\ Skips("File already exported!") = {}
    /\ \A j, k \in 1..Len(saved) :
         artifact(kwargs, saved[j].name, saved[j].out) = artifact(kwargs, saved[k].name, saved[k].out)
           => j = k
    /\ pc = "done" => Len(saved) = ReadableDocs(InputTree)

====
